---- MODULE Spec2Model ----
(***************************************************************************)
(* Model of the Google auth provider of cashier                            *)
(* (server/auth/google/google.go): construction of the provider, and the   *)
(* calls Exchange, Valid, Revoke, Email, Username, StartSession and Name   *)
(* made concurrently by request goroutines against one provider and one    *)
(* identity backend.                                                       *)
(*                                                                         *)
(* Strings the code takes apart (email addresses) are sequences of         *)
(* one-character strings; the empty Go string "" is the empty sequence.    *)
(***************************************************************************)
EXTENDS Integers, Sequences, FiniteSets, TLC

\* ---------------------------------------------------------------- bounds
\* total number of provider calls started in one behaviour
MaxCalls == 2
\* longest users whitelist handed to New
MaxWhitelistLen == 2
\* latest reading of the wall clock (readings are 1..MaxTime)
MaxTime == 2

\* ------------------------------------------------------- program constants
\* the provider name
name == "google"

\* ------------------------------------------------------------- universes
\* request goroutines sharing the provider
Procs == {"p1", "p2"}

\* email addresses, as sequences of characters
Alice == <<"a", "@", "x">>
NoAt == <<"c">>
TwoAt == <<"a", "@", "b", "@", "c">>
EmptyString == <<>>
\* addresses the backend may report in a userinfo response
Emails == {EmptyString, Alice, NoAt, TwoAt}
\* entries an operator may put in the users whitelist
WhitelistEntries == {EmptyString, Alice}

\* hosted domains; "" is "no hosted domain"
ExampleCom == "example.com"
OtherCom == "other.com"
Hds == {"", ExampleCom, OtherCom}
\* values of the provider option "domain"; a missing key reads as ""
DomainOpts == {"", ExampleCom}

\* OAuth client ids (audiences)
OauthClientID == "cid"
ForeignClientID == "other-cid"
Audiences == {OauthClientID, ForeignClientID}
OauthCallbackURL == "https://cashier/callback"

\* access tokens the backend has minted or may mint
AccessTokens == {"t1"}
\* authorization codes; "bad" was never issued by the backend
Codes == {"c1", "bad"}
\* anti-forgery state values
States == {"s1", "s2"}

\* the token the backend mints for a code
TokenOfCode(code) == "t1"

\* oauth2.Token values a caller may pass: access token and expiry (0 = none)
CallerTokens ==
  {t \in [access : AccessTokens \cup {""}, expiry : {0, 1}] :
     t.access = "" => t.expiry = 0}
NoToken == [access |-> "", expiry |-> 0]

Times == 1..MaxTime

\* sequences over S of length at most n
RECURSIVE SeqsUpTo(_, _)
SeqsUpTo(S, n) ==
  IF n = 0 THEN {<<>>}
  ELSE LET shorter == SeqsUpTo(S, n - 1)
       IN shorter \cup {Append(s, e) : s \in {t \in shorter : Len(t) = n - 1}, e \in S}

Range(s) == {s[i] : i \in 1..Len(s)}

\* config.Auth values handed to New
AuthConfigs ==
  [OauthClientID : {OauthClientID},
   OauthCallbackURL : {OauthCallbackURL},
   domain : DomainOpts,
   UsersWhitelist : SeqsUpTo(WhitelistEntries, MaxWhitelistLen)]

\* ------------------------------------------------------------ the state
VARIABLES
  provider,      \* the *Config New returned, or NoProvider
  newErr,        \* whether the last New returned an error
  usedCodes,     \* backend: authorization codes already redeemed
  revoked,       \* backend: access tokens it has invalidated
  revokedOk,     \* access tokens for which a Revoke call has returned nil
  AuthValid,     \* metrics.M.AuthValid{"google"}
  AuthExchange,  \* metrics.M.AuthExchange{"google"}
  proc,          \* per goroutine: the call in flight and what it observed
  ncalls,        \* number of calls started
  nValidTrue,    \* number of Valid calls that have returned true
  nExchangeOk    \* number of Exchange calls that have returned nil error

vars == <<provider, newErr, usedCodes, revoked, revokedOk, AuthValid,
          AuthExchange, proc, ncalls, nValidTrue, nExchangeOk>>

NoProvider == [built |-> FALSE, clientID |-> "", redirectURL |-> "",
               domain |-> "", whitelist |-> {}]

\* a userinfo / tokeninfo response that is an error
UserinfoErr == [ok |-> FALSE, email |-> EmptyString, hd |-> ""]
TokeninfoErr == [ok |-> FALSE, audience |-> ""]
NoURL == <<>>

\* a goroutine that is in no call
Idle ==
  [op |-> "idle", pc |-> "idle", token |-> NoToken, code |-> "",
   state |-> "",
   email |-> EmptyString, \* what Email returned
   asked |-> FALSE,       \* whether Email was called by this call
   lookupErr |-> FALSE,   \* the lookup of that Email call failed
   late |-> FALSE,        \* Valid began after Revoke returned nil for the token
   tokOK |-> FALSE,       \* what token.Valid() returned
   ti |-> TokeninfoErr,   \* the tokeninfo response received
   ui |-> UserinfoErr,    \* the userinfo response, as far as it was read
   failed |-> FALSE,      \* some backend call of this call returned an error
   status |-> 0,          \* HTTP status of the revoke response, 0 if none
   reqs |-> <<>>,         \* requests sent to the backend, in order
   valid |-> FALSE,       \* Valid's result
   err |-> FALSE,         \* the error result is non-nil
   outToken |-> "",       \* access token of the token Exchange returned
   str |-> EmptyString,   \* Username's result
   url |-> NoURL,         \* StartSession's result
   pname |-> ""]          \* Name's result

Init ==
  /\ provider = NoProvider
  /\ newErr = FALSE
  /\ usedCodes = {}
  /\ revoked = {}
  /\ revokedOk = {}
  /\ AuthValid = 0
  /\ AuthExchange = 0
  /\ proc = [p \in Procs |-> Idle]
  /\ ncalls = 0
  /\ nValidTrue = 0
  /\ nExchangeOk = 0

\* ------------------------------------------------------------------ New
\* the map New builds from the whitelist slice
WhitelistMap(c) == Range(c.UsersWhitelist)

\* a guard that rejects the wrong configurations
NewFailsInverted(c) == c.domain = "" /\ Cardinality(WhitelistMap(c)) > 0

\* New's guard: neither a domain nor a whitelist
NewFails(c) == c.domain = "" /\ Cardinality(WhitelistMap(c)) = 0

NewConfig(c) ==
  [built |-> TRUE, clientID |-> c.OauthClientID,
   redirectURL |-> c.OauthCallbackURL,
   domain |-> c.domain, whitelist |-> WhitelistMap(c)]

New(c) ==
  /\ ~provider.built
  /\ IF NewFails(c)
     THEN /\ newErr' = TRUE
          /\ provider' = NoProvider
     ELSE /\ newErr' = FALSE
          /\ provider' = NewConfig(c)
  /\ UNCHANGED <<revokedOk, usedCodes, revoked, AuthValid, AuthExchange, proc, ncalls,
                 nValidTrue, nExchangeOk>>

\* --------------------------------------------------------- the backend
\* oauth2's Token.Valid: an access token is set and it has not expired
Expired(token, now) == token.expiry # 0 /\ token.expiry < now

TokenValid(token, now) == token.access # "" /\ ~Expired(token, now)

\* the client of newClient sends a request only with a token that is valid
\* at that time (there is no refresh token to renew it with)
ClientSends(token, now) == TokenValid(token, now)

\* responses a userinfo request made through the client may get: an error
\* (not sent, network, cancelled context, rejected token) or the identity
UserinfoResponses(token, now) ==
  IF ClientSends(token, now) /\ token.access \in AccessTokens \ revoked
  THEN {UserinfoErr} \cup [ok : {TRUE}, email : Emails, hd : Hds]
  ELSE {UserinfoErr}

\* responses a tokeninfo request for an access token may get
TokeninfoResponses(token, now) ==
  IF ClientSends(token, now) /\ token.access \in AccessTokens \ revoked
  THEN {TokeninfoErr} \cup [ok : {TRUE}, audience : Audiences]
  ELSE {TokeninfoErr}

\* a goroutine may start a call
CanCall(p) ==
  /\ provider.built
  /\ proc[p].pc = "idle"
  /\ ncalls < MaxCalls


\* what the token endpoint does with a code: net is how the request fared
\* ("unreached": it never arrived, "lost": the reply was lost, "answered")
Redeemable(code) == code \in {"c1"} \ usedCodes

ExchangeReply(code, net) ==
  IF net = "answered" /\ Redeemable(code)
  THEN [err |-> FALSE, token |-> TokenOfCode(code)]
  ELSE [err |-> TRUE, token |-> ""]

\* what the revoke endpoint does with an access token
Revocable(access) == access \in AccessTokens \ revoked

\* ------------------------------------------------------------- strings
\* strings.Index for a one-character separator: first position, 0 if absent
RECURSIVE IndexFrom(_, _, _)
IndexFrom(s, sep, i) ==
  IF i > Len(s) THEN 0
  ELSE IF s[i] = sep THEN i
  ELSE IndexFrom(s, sep, i + 1)

Index(s, sep) == IndexFrom(s, sep, 1)

\* strings.Split(s, sep): the pieces of s between the separators
RECURSIVE Split(_, _)
Split(s, sep) ==
  LET i == Index(s, sep)
  IN IF i = 0 THEN <<s>>
     ELSE <<SubSeq(s, 1, i - 1)>> \o Split(SubSeq(s, i + 1, Len(s)), sep)

\* --------------------------------------------------------------- Email
\* an Email that returns the local part of the address
EmailResultLocalPart(svcOK, resp) ==
  IF ~svcOK THEN EmptyString
  ELSE IF ~resp.ok THEN EmptyString
  ELSE Split(resp.email, "@")[1]

\* Email's result from the outcome of NewService and of Userinfo.Get().Do()
EmailResult(svcOK, resp) ==
  IF ~svcOK THEN EmptyString
  ELSE IF ~resp.ok THEN EmptyString
  ELSE resp.email

\* Email reads the address of the response only
EmailRead(resp) == [resp EXCEPT !.hd = ""]

\* an Email that sends its lookup a second time
EmailReqsRetry(svcOK) ==
  IF svcOK THEN <<"userinfo", "userinfo">> ELSE <<>>

\* requests Email sends
EmailReqs(svcOK) == IF svcOK THEN <<"userinfo">> ELSE <<>>

\* an Email that remembers the address it found in the provider
EmailCaching(p, token) ==
  /\ CanCall(p)
  /\ \E now \in Times, svcOK \in BOOLEAN :
     \E resp \in UserinfoResponses(token, now) :
       /\ proc' = [proc EXCEPT ![p] =
                  [Idle EXCEPT !.op = "Email", !.pc = "done", !.token = token,
                               !.ui = EmailRead(resp), !.asked = TRUE,
                               !.failed = ~svcOK \/ ~resp.ok,
                               !.reqs = EmailReqs(svcOK),
                               !.email = EmailResult(svcOK, resp)]]
       /\ provider' = [provider EXCEPT
                         !.whitelist = @ \cup {EmailResult(svcOK, resp)}]
  /\ ncalls' = ncalls + 1
  /\ UNCHANGED <<revokedOk, newErr, usedCodes, revoked, AuthValid,
                 AuthExchange, nValidTrue, nExchangeOk>>

Email(p, token) ==
  /\ CanCall(p)
  /\ \E now \in Times, svcOK \in BOOLEAN :
     \E resp \in UserinfoResponses(token, now) :
       proc' = [proc EXCEPT ![p] =
                  [Idle EXCEPT !.op = "Email", !.pc = "done", !.token = token,
                               !.ui = EmailRead(resp), !.asked = TRUE,
                               !.failed = ~svcOK \/ ~resp.ok,
                               !.reqs = EmailReqs(svcOK),
                               !.email = EmailResult(svcOK, resp)]]
  /\ ncalls' = ncalls + 1
  /\ UNCHANGED <<revokedOk, provider, newErr, usedCodes, revoked, AuthValid,
                 AuthExchange, nValidTrue, nExchangeOk>>

\* ------------------------------------------------------------ Username
\* a Username that takes the last piece of the address
UsernameOfLastPiece(email) ==
  Split(email, "@")[Len(Split(email, "@"))]

UsernameOf(email) == Split(email, "@")[1]

Username(p, token) ==
  /\ CanCall(p)
  /\ \E now \in Times, svcOK \in BOOLEAN :
     \E resp \in UserinfoResponses(token, now) :
       LET e == EmailResult(svcOK, resp)
       IN proc' = [proc EXCEPT ![p] =
                  [Idle EXCEPT !.op = "Username", !.pc = "done",
                               !.token = token,
                               !.ui = EmailRead(resp), !.asked = TRUE,
                               !.failed = ~svcOK \/ ~resp.ok,
                               !.reqs = EmailReqs(svcOK),
                               !.email = e,
                               !.str = UsernameOf(e)]]
  /\ ncalls' = ncalls + 1
  /\ UNCHANGED <<revokedOk, provider, newErr, usedCodes, revoked, AuthValid,
                 AuthExchange, nValidTrue, nExchangeOk>>

\* ------------------------------------------------------------ Exchange
\* an Exchange that answers a rejected code with the token it saw last
ExchangeReturnCached(reply) ==
  IF reply.err THEN [err |-> FALSE, token |-> "t1"] ELSE reply

\* what Exchange returns, given what the oauth2 exchange returned
ExchangeReturn(reply) == [err |-> reply.err, token |-> reply.token]

\* a counter that is incremented on every call
CountAlways(counter, success) == counter + 1

\* a metrics counter after a call: incremented on success only
Count(counter, success) == IF success THEN counter + 1 ELSE counter

Exchange(p, code) ==
  /\ CanCall(p)
  /\ \E net \in {"unreached", "lost", "answered"} :
       LET reply == ExchangeReply(code, net)
           ret == ExchangeReturn(reply)
       IN /\ proc' = [proc EXCEPT ![p] =
                  [Idle EXCEPT !.op = "Exchange", !.pc = "done",
                               !.code = code,
                               !.failed = reply.err,
                               !.reqs = <<"token">>,
                               !.err = ret.err,
                               !.outToken = ret.token]]
          /\ AuthExchange' = Count(AuthExchange, ~reply.err)
          /\ usedCodes' = IF net # "unreached" /\ Redeemable(code)
                          THEN usedCodes \cup {code}
                          ELSE usedCodes
  /\ ncalls' = ncalls + 1
  /\ UNCHANGED <<revokedOk, provider, newErr, revoked, AuthValid, nValidTrue,
                 nExchangeOk>>

\* -------------------------------------------------------------- Revoke
\* Revoke's error result: reqErr is http.NewRequestWithContext failing,
\* doErr is client.Do failing, status is the status of the response
RevokeErr(reqErr, doErr, status) ==
  IF reqErr THEN TRUE
  ELSE IF doErr THEN TRUE
  ELSE FALSE

\* outcomes of the revoke request: the request cannot be built; it never
\* arrives; the backend acts on it and the reply is lost; the backend
\* replies after acting on it; the backend replies that it is unavailable
RevokeOutcomes(token, now) ==
  IF ClientSends(token, now)
  THEN {"noreq", "unreached", "lost", "answered", "refused"}
  ELSE {"noreq", "unreached"}

\* status of the backend's reply to a revoke request: 200 when it
\* invalidated the token, 400 for a token it does not hold valid, 503 when
\* it is unavailable
RevokeStatus(access, net) ==
  IF net = "refused" THEN 503
  ELSE IF Revocable(access) THEN 200
  ELSE 400

Revoke(p, token) ==
  /\ CanCall(p)
  /\ \E now \in Times : \E net \in RevokeOutcomes(token, now) :
       LET reqErr == net = "noreq"
           doErr == net \in {"unreached", "lost"}
           status == IF net \in {"answered", "refused"}
                     THEN RevokeStatus(token.access, net) ELSE 0
           err == RevokeErr(reqErr, doErr, status)
       IN /\ proc' = [proc EXCEPT ![p] =
                  [Idle EXCEPT !.op = "Revoke", !.pc = "done",
                               !.token = token,
                               !.failed = reqErr \/ doErr \/ status # 200,
                               !.status = status,
                               !.reqs = IF reqErr THEN <<>> ELSE <<"revoke">>,
                               !.err = err]]
          /\ revoked' = IF net \in {"lost", "answered"}
                           /\ Revocable(token.access)
                        THEN revoked \cup {token.access}
                        ELSE revoked
          /\ revokedOk' = IF err THEN revokedOk
                          ELSE revokedOk \cup {token.access}
  /\ ncalls' = ncalls + 1
  /\ UNCHANGED <<provider, newErr, usedCodes, AuthValid, AuthExchange,
                 nValidTrue, nExchangeOk>>


\* --------------------------------------------------------------- Valid
\* an allow-list check whose outcome is ignored
AllowListRejectsNever(c, email) == FALSE

\* the allow-list check of Valid, given what Email returned
AllowListRejects(c, email) ==
  Cardinality(c.whitelist) > 0 /\ email \notin c.whitelist

\* an audience check that only rejects a missing audience
AudienceRejectsMissing(c, ti) == ti.audience = ""

\* the audience check
AudienceRejects(c, ti) == ti.audience # c.clientID

\* a domain check that is skipped when a whitelist is configured
DomainRejectsNoWhitelist(c, ui) ==
  Cardinality(c.whitelist) = 0 /\ c.domain # "" /\ ui.hd # c.domain

\* a domain check that only rejects a missing hosted domain
DomainRejectsMissing(c, ui) == c.domain # "" /\ ui.hd = ""

\* the domain check
DomainRejects(c, ui) == c.domain # "" /\ ui.hd # c.domain

\* Valid reads the hosted domain of the userinfo response only
HdRead(resp) == [resp EXCEPT !.email = EmptyString]

\* Valid returns false from the current position
ValidReturnsFalse(r) == [r EXCEPT !.pc = "done", !.valid = FALSE]

\* Valid, up to and including the allow-list check: Email is called only
\* when the whitelist is not empty
ValidAllowList(p, token) ==
  /\ CanCall(p)
  /\ LET r0 == [Idle EXCEPT !.op = "Valid", !.token = token,
                            !.late = token.access \in revokedOk]
     IN IF Cardinality(provider.whitelist) > 0
        THEN \E now \in Times, svcOK \in BOOLEAN :
             \E resp \in UserinfoResponses(token, now) :
               LET e == EmailResult(svcOK, resp)
                   r1 == [r0 EXCEPT !.asked = TRUE, !.email = e,
                                    !.lookupErr = ~svcOK \/ ~resp.ok,
                                    !.failed = ~svcOK \/ ~resp.ok,
                                    !.reqs = EmailReqs(svcOK)]
               IN proc' = [proc EXCEPT ![p] =
                             IF AllowListRejects(provider, e)
                             THEN ValidReturnsFalse(r1)
                             ELSE [r1 EXCEPT !.pc = "tokeninfo"]]
        ELSE proc' = [proc EXCEPT ![p] = [r0 EXCEPT !.pc = "tokeninfo"]]
  /\ ncalls' = ncalls + 1
  /\ UNCHANGED <<revokedOk, provider, newErr, usedCodes, revoked, AuthValid,
                 AuthExchange, nValidTrue, nExchangeOk>>

\* Valid, from token.Valid() to the audience check
ValidTokeninfo(p) ==
  /\ proc[p].op = "Valid" /\ proc[p].pc = "tokeninfo"
  /\ \E now \in Times, svcOK \in BOOLEAN :
     \E ti \in TokeninfoResponses(proc[p].token, now) :
       LET r0 == proc[p]
           tokOK == TokenValid(r0.token, now)
           r1 == [r0 EXCEPT !.tokOK = tokOK]
           r2 == [r1 EXCEPT !.failed = r0.failed \/ ~svcOK]
           r3 == [r2 EXCEPT !.ti = ti, !.failed = r2.failed \/ ~ti.ok,
                            !.reqs = Append(r0.reqs, "tokeninfo")]
       IN proc' = [proc EXCEPT ![p] =
                     IF ~tokOK THEN ValidReturnsFalse(r1)
                     ELSE IF ~svcOK THEN ValidReturnsFalse(r2)
                     ELSE IF ~ti.ok THEN ValidReturnsFalse(r3)
                     ELSE IF AudienceRejects(provider, ti)
                          THEN ValidReturnsFalse(r3)
                     ELSE [r3 EXCEPT !.pc = "userinfo"]]
  /\ UNCHANGED <<revokedOk, provider, newErr, usedCodes, revoked, AuthValid,
                 AuthExchange, ncalls, nValidTrue, nExchangeOk>>

\* Valid, from the userinfo lookup to the end
ValidUserinfo(p) ==
  /\ proc[p].op = "Valid" /\ proc[p].pc = "userinfo"
  /\ \E now \in Times : \E ui \in UserinfoResponses(proc[p].token, now) :
       LET r0 == proc[p]
           r1 == [r0 EXCEPT !.ui = HdRead(ui), !.failed = r0.failed \/ ~ui.ok,
                            !.reqs = Append(r0.reqs, "userinfo")]
           ok == ui.ok /\ ~DomainRejects(provider, ui)
       IN /\ proc' = [proc EXCEPT ![p] =
                        IF ok THEN [r1 EXCEPT !.pc = "done", !.valid = TRUE]
                        ELSE ValidReturnsFalse(r1)]
          /\ AuthValid' = Count(AuthValid, ok)
  /\ UNCHANGED <<revokedOk, provider, newErr, usedCodes, revoked, AuthExchange, ncalls,
                 nValidTrue, nExchangeOk>>

\* -------------------------------------------------------- StartSession
\* an authorization URL that carries a state fixed at construction
AuthCodeURLFixedState(c, state) ==
  <<c.clientID, c.redirectURL, "s1", c.domain>>

\* the authorization URL, as the parameters AuthCodeURL puts in it
AuthCodeURL(c, state) ==
  <<c.clientID, c.redirectURL, state, c.domain>>

StartSession(p, state) ==
  /\ CanCall(p)
  /\ proc' = [proc EXCEPT ![p] =
                [Idle EXCEPT !.op = "StartSession", !.pc = "done",
                             !.state = state,
                             !.url = AuthCodeURL(provider, state)]]
  /\ ncalls' = ncalls + 1
  /\ UNCHANGED <<revokedOk, provider, newErr, usedCodes, revoked, AuthValid,
                 AuthExchange, nValidTrue, nExchangeOk>>

\* ---------------------------------------------------------------- Name
Name(p) ==
  /\ CanCall(p)
  /\ proc' = [proc EXCEPT ![p] =
                [Idle EXCEPT !.op = "Name", !.pc = "done", !.pname = name]]
  /\ ncalls' = ncalls + 1
  /\ UNCHANGED <<revokedOk, provider, newErr, usedCodes, revoked, AuthValid,
                 AuthExchange, nValidTrue, nExchangeOk>>

\* ------------------------------------------------------------- callers
\* the caller takes the result of a finished call; the goroutine is free
Return(p) ==
  /\ proc[p].pc = "done"
  /\ nValidTrue' = IF proc[p].op = "Valid" /\ proc[p].valid
                   THEN nValidTrue + 1 ELSE nValidTrue
  /\ nExchangeOk' = IF proc[p].op = "Exchange" /\ ~proc[p].err
                    THEN nExchangeOk + 1 ELSE nExchangeOk
  /\ proc' = [proc EXCEPT ![p] = Idle]
  /\ UNCHANGED <<revokedOk, provider, newErr, usedCodes, revoked, AuthValid,
                 AuthExchange, ncalls>>

Next ==
  \/ \E c \in AuthConfigs : New(c)
  \/ \E p \in Procs, token \in CallerTokens : ValidAllowList(p, token)
  \/ \E p \in Procs : ValidTokeninfo(p)
  \/ \E p \in Procs : ValidUserinfo(p)
  \/ \E p \in Procs, token \in CallerTokens : Revoke(p, token)
  \/ \E p \in Procs, code \in Codes : Exchange(p, code)
  \/ \E p \in Procs, token \in CallerTokens : Email(p, token)
  \/ \E p \in Procs, token \in CallerTokens : Username(p, token)
  \/ \E p \in Procs, state \in States : StartSession(p, state)
  \/ \E p \in Procs : Name(p)
  \/ \E p \in Procs : Return(p)

Spec == Init /\ [][Next]_vars


\* ============================================================== claims
\* goroutines whose call of op has finished and is not yet collected
Done(op) == {p \in Procs : proc[p].op = op /\ proc[p].pc = "done"}

\* the checks of Valid other than the allow-list and the domain check passed
OtherChecksPass(r) ==
  r.tokOK /\ r.ti.ok /\ r.ti.audience = provider.clientID /\ r.ui.ok

\* C1: New called with an empty domain option and an empty users whitelist
\* returns an error and no provider, and no provider that has neither a
\* domain nor a whitelist is ever constructed.
C1_NewRejectsUnconstrained ==
  [][(~provider.built =>
        \A c \in AuthConfigs :
          (c.domain = "" /\ Len(c.UsersWhitelist) = 0 /\ New(c))
            => (newErr' /\ ~provider'.built))
     /\ (provider'.built =>
           (provider'.domain # "" \/ Cardinality(provider'.whitelist) > 0))]_vars

\* New has been called with neither constraint and has failed
C1_Witness == newErr /\ ~provider.built

\* C2: when the audience of the tokeninfo response differs from the
\* configured client id, Valid returns false and goes no further.
C2_AudienceMismatchInvalid ==
  \A p \in Procs :
    (proc[p].op = "Valid" /\ proc[p].ti.ok
       /\ proc[p].ti.audience # provider.clientID)
      => (proc[p].pc = "done" /\ ~proc[p].valid)

\* a Valid call for an unexpired, whitelisted token of a foreign audience
C2_Witness ==
  \E p \in Done("Valid") :
    /\ proc[p].tokOK
    /\ proc[p].asked
    /\ proc[p].email = Alice /\ Alice \in provider.whitelist
    /\ ~proc[p].failed
    /\ proc[p].ti.ok /\ proc[p].ti.audience = ForeignClientID
    /\ ~proc[p].valid

\* C3 as stated: with a non-empty whitelist, Valid returns false for an
\* email that is not whitelisted, and returns true for a whitelisted email
\* (a reported, non-empty address) whenever every backend call succeeds
\* and all checks other than the domain check pass, whatever the hosted
\* domain is.
C3_DomainNotConsulted ==
  \A p \in Done("Valid") :
    Cardinality(provider.whitelist) > 0 =>
      /\ proc[p].email \notin provider.whitelist => ~proc[p].valid
      /\ (/\ proc[p].email \in provider.whitelist
          /\ proc[p].email # EmptyString
          /\ ~proc[p].failed
          /\ OtherChecksPass(proc[p]))
           => proc[p].valid

\* C3 as amended: with a non-empty whitelist, Valid returns false for an
\* email that is not whitelisted; for a whitelisted email with all other
\* checks passing, Valid returns true exactly when the domain option is
\* empty or equals the hosted domain the backend reports.
C3_WhitelistAndDomain ==
  \A p \in Done("Valid") :
    Cardinality(provider.whitelist) > 0 =>
      /\ proc[p].email \notin provider.whitelist => ~proc[p].valid
      /\ (proc[p].email \in provider.whitelist /\ OtherChecksPass(proc[p]))
           => (proc[p].valid <=>
                 (provider.domain = "" \/ proc[p].ui.hd = provider.domain))

\* a whitelisted email, all other checks passing, a foreign hosted domain
C3_Witness ==
  \E p \in Done("Valid") :
    /\ Cardinality(provider.whitelist) > 0
    /\ proc[p].email = Alice /\ Alice \in provider.whitelist
    /\ ~proc[p].failed
    /\ OtherChecksPass(proc[p])
    /\ provider.domain # "" /\ proc[p].ui.hd # provider.domain
    /\ ~proc[p].valid

\* C4: with a required domain and an empty whitelist, Valid returns true
\* if and only if the token is locally valid, the tokeninfo response
\* reports the configured client id as audience and the userinfo response
\* reports the configured domain as hosted domain.
C4_DomainOnlyIff ==
  \A p \in Done("Valid") :
    (provider.domain # "" /\ Cardinality(provider.whitelist) = 0) =>
      (proc[p].valid <=>
         /\ proc[p].tokOK
         /\ proc[p].ti.ok /\ proc[p].ti.audience = provider.clientID
         /\ proc[p].ui.ok /\ proc[p].ui.hd = provider.domain)

\* the configured domain is example.com, the backend reports other.com
C4_Witness ==
  \E p \in Done("Valid") :
    /\ provider.domain = ExampleCom /\ Cardinality(provider.whitelist) = 0
    /\ proc[p].tokOK
    /\ proc[p].ti.ok /\ proc[p].ti.audience = provider.clientID
    /\ proc[p].ui.ok /\ proc[p].ui.hd = OtherCom
    /\ ~proc[p].valid

\* C5: Valid returns true only if every backend call it made (service
\* construction, tokeninfo, userinfo, the email lookup of the allow-list
\* check) succeeded.
C5_FailClosed ==
  \A p \in Done("Valid") : proc[p].failed => ~proc[p].valid

\* C6: Revoke returns nil only when the backend accepted the revocation;
\* a request that failed or was answered with a failure gives an error.
C6_RevokeReportsFailure ==
  \A p \in Done("Revoke") : ~proc[p].err => proc[p].status = 200

\* C7: Exchange called with a code the backend has already redeemed returns
\* an error and no token, and counts nothing; an error never comes with a
\* token.
C7_SecondExchangeFails ==
  [][\A p \in Procs, code \in Codes :
       (code \in usedCodes /\ Exchange(p, code))
         => /\ proc'[p].err
            /\ proc'[p].outToken = ""
            /\ AuthExchange' = AuthExchange]_vars

\* two Exchange calls with the same code: one succeeded, the other failed
C7_Witness ==
  \E p \in Done("Exchange"), q \in Done("Exchange") :
    /\ p # q
    /\ proc[p].code = proc[q].code
    /\ ~proc[p].err /\ proc[p].outToken = TokenOfCode(proc[p].code)
    /\ proc[q].err /\ proc[q].outToken = ""

\* the position of the first separator of s, 0 if it has none
FirstAt(s) ==
  IF \E i \in 1..Len(s) : s[i] = "@"
  THEN CHOOSE i \in 1..Len(s) :
         s[i] = "@" /\ \A j \in 1..(i - 1) : s[j] # "@"
  ELSE 0

\* C8: Username returns what precedes the first '@' of the value Email
\* returned, and the empty string when Email returned the empty string.
C8_UsernameIsLocalPart ==
  \A p \in Done("Username") :
    /\ proc[p].email = EmptyString => proc[p].str = EmptyString
    /\ FirstAt(proc[p].email) > 0 =>
         proc[p].str = SubSeq(proc[p].email, 1, FirstAt(proc[p].email) - 1)

\* Username was called for alice@example.com
C8_Witness ==
  \E p \in Done("Username") : proc[p].email = Alice /\ proc[p].str = <<"a">>

\* C9: when the userinfo lookup fails, Email and Username return the empty
\* string; otherwise Email returns the address of the userinfo response.
C9_EmailDegradesToEmpty ==
  \A p \in Done("Email") \cup Done("Username") :
    /\ proc[p].failed =>
         (proc[p].email = EmptyString /\ proc[p].str = EmptyString)
    /\ ~proc[p].failed =>
         (proc[p].ui.ok /\ proc[p].email = proc[p].ui.email)

\* an Email call whose lookup failed and a Username call whose lookup
\* reported an address
C9_Witness ==
  /\ \E p \in Done("Email") : proc[p].failed /\ proc[p].email = EmptyString
  /\ \E p \in Done("Username") : ~proc[p].failed /\ proc[p].email = TwoAt

\* calls of op that have returned success and wait to be collected
Pending(op) ==
  IF op = "Valid" THEN {p \in Done(op) : proc[p].valid}
  ELSE {p \in Done(op) : ~proc[p].err}

\* C10: the validation counter equals the number of Valid calls that
\* returned true and the exchange counter the number of Exchange calls
\* that returned a nil error.
C10_CountersMatchSuccesses ==
  /\ AuthValid = nValidTrue + Cardinality(Pending("Valid"))
  /\ AuthExchange = nExchangeOk + Cardinality(Pending("Exchange"))

\* a successful Valid has been counted and a failing call has finished
C10_Witness ==
  /\ AuthValid = 1 /\ nValidTrue = 1
  /\ \E p \in Done("Valid") : ~proc[p].valid /\ proc[p].tokOK


\* what Valid returns when it runs alone with the provider New built and
\* the responses the call r received
ValidAlone(c, r) ==
  /\ (Cardinality(c.whitelist) = 0 \/ r.email \in c.whitelist)
  /\ r.tokOK
  /\ r.ti.ok /\ r.ti.audience = c.clientID
  /\ r.ui.ok
  /\ (c.domain = "" \/ r.ui.hd = c.domain)

\* C11: no method changes the provider New built (client configuration,
\* domain, whitelist), whatever calls run concurrently, and the result of
\* a Valid call is the one the provider as built gives for the responses
\* that call received.
C11_ProviderImmutable ==
  [][provider.built =>
       /\ provider' = provider
       /\ \A p \in Procs :
            (proc'[p].op = "Valid" /\ proc'[p].pc = "done")
              => (proc'[p].valid <=> ValidAlone(provider, proc'[p]))]_vars

\* two calls are in progress or finished at once, one of them Valid
C11_Witness ==
  \E p \in Done("Valid"), q \in Procs :
    /\ p # q
    /\ proc[q].op \in {"Email", "Valid", "Revoke"}
    /\ proc[p].valid

\* C12: StartSession sends no request, changes neither the provider, the
\* backend nor the counters, and returns the URL that carries the caller's
\* state value, the client id, the redirect URL and the domain hint.
C12_StartSessionPure ==
  [][\A p \in Procs, st \in States :
       (proc'[p].op = "StartSession" /\ StartSession(p, st)) =>
         /\ proc'[p].pc = "done"
         /\ proc'[p].url[1] = provider.clientID
         /\ proc'[p].url[2] = provider.redirectURL
         /\ proc'[p].url[3] = st
         /\ proc'[p].url[4] = provider.domain
         /\ proc'[p].reqs = <<>>
         /\ ~proc'[p].err
         /\ UNCHANGED <<revokedOk, provider, usedCodes, revoked, AuthValid,
                        AuthExchange>>]_vars

\* StartSession has returned a URL for the state value s2
C12_Witness ==
  \E p \in Done("StartSession") :
    /\ proc[p].state = "s2"
    /\ proc[p].url = <<OauthClientID, OauthCallbackURL, "s2", provider.domain>>


\* s is an initial part of t
IsPrefix(s, t) == Len(s) <= Len(t) /\ s = SubSeq(t, 1, Len(s))

\* a tokeninfo request is among the requests of the call r
TokeninfoSent(r) == \E i \in 1..Len(r.reqs) : r.reqs[i] = "tokeninfo"

\* the userinfo lookup of the domain check is among the requests of r
DomainLookupSent(r) ==
  \E i \in 1..Len(r.reqs) : \E j \in (i + 1)..Len(r.reqs) :
    r.reqs[i] = "tokeninfo" /\ r.reqs[j] = "userinfo"

\* C13: Valid sends its requests in the order allow-list lookup,
\* tokeninfo, domain lookup and stops at the first failing check: no
\* tokeninfo request after a failed allow-list check or for a locally
\* invalid token, no domain lookup after a failed tokeninfo or an audience
\* mismatch.
C13_ChecksInOrder ==
  \A p \in Procs :
    proc[p].op = "Valid" =>
      /\ \/ IsPrefix(proc[p].reqs, <<"userinfo", "tokeninfo", "userinfo">>)
         \/ IsPrefix(proc[p].reqs, <<"tokeninfo", "userinfo">>)
      /\ (proc[p].asked /\ proc[p].email \notin provider.whitelist)
           => (proc[p].pc = "done" /\ ~TokeninfoSent(proc[p]))
      /\ (proc[p].pc = "done" /\ ~proc[p].tokOK) => ~TokeninfoSent(proc[p])
      /\ (proc[p].pc = "done"
            /\ (~proc[p].ti.ok \/ proc[p].ti.audience # provider.clientID))
           => ~DomainLookupSent(proc[p])
      /\ proc[p].valid => DomainLookupSent(proc[p])

\* one Valid stopped at the allow-list check, another at the audience check
C13_Witness ==
  \E p \in Done("Valid"), q \in Done("Valid") :
    /\ proc[p].asked /\ proc[p].email = NoAt
    /\ proc[p].reqs = <<"userinfo">>
    /\ proc[q].email = Alice
    /\ proc[q].ti.ok /\ proc[q].ti.audience = ForeignClientID
    /\ proc[q].reqs = <<"userinfo", "tokeninfo">>

\* the number of requests of kind k among the requests of the call r
NumReqs(r, k) == Cardinality({i \in 1..Len(r.reqs) : r.reqs[i] = k})

\* C14: one call sends a bounded number of requests, whatever the backend
\* answers: Exchange at most one token request, Revoke at most one revoke
\* request, Email and Username at most one userinfo request, Valid at most
\* one tokeninfo and two userinfo requests, StartSession and Name none.
C14_BoundedRequests ==
  \A p \in Procs :
    LET r == proc[p]
    IN /\ r.op = "Exchange" => (Len(r.reqs) <= 1 /\ NumReqs(r, "token") = Len(r.reqs))
       /\ r.op = "Revoke" => (Len(r.reqs) <= 1 /\ NumReqs(r, "revoke") = Len(r.reqs))
       /\ r.op \in {"Email", "Username"} =>
            (Len(r.reqs) <= 1 /\ NumReqs(r, "userinfo") = Len(r.reqs))
       /\ r.op = "Valid" =>
            /\ Len(r.reqs) <= 3
            /\ NumReqs(r, "tokeninfo") <= 1
            /\ NumReqs(r, "userinfo") <= 2
            /\ NumReqs(r, "tokeninfo") + NumReqs(r, "userinfo") = Len(r.reqs)
            /\ r.pc = "tokeninfo" => Len(r.reqs) <= 1
            /\ r.pc = "userinfo" => Len(r.reqs) <= 2
       /\ r.op \in {"StartSession", "Name", "idle"} => r.reqs = <<>>

\* a Valid call that sent its three requests and failed at the last one,
\* next to an Email call whose single request failed
C14_Witness ==
  \E p \in Done("Valid"), q \in Done("Email") :
    /\ Len(proc[p].reqs) = 3 /\ ~proc[p].ui.ok /\ ~proc[p].valid
    /\ Len(proc[q].reqs) = 1 /\ proc[q].failed


\* C15: a Valid call that begins after Revoke has returned nil for its
\* token returns false.
C15_RevokedStaysInvalid ==
  \A p \in Done("Valid") : proc[p].late => ~proc[p].valid

\* C16: with a non-empty whitelist, Valid returns false when the email
\* lookup of the allow-list check failed.
C16_UnknownIdentityRejected ==
  \A p \in Done("Valid") :
    (Cardinality(provider.whitelist) > 0 /\ proc[p].lookupErr)
      => ~proc[p].valid

====
